---- MODULE Spec2Model ----
(***************************************************************************)
(* Model of files/bin/deploy.py and files/bin/parse-snapshot.py.           *)
(*                                                                         *)
(* Both scripts read a Konflux snapshot from the environment, validate it  *)
(* with the pydantic models Snapshot/Component/ContainerImage and expand   *)
(* every component into six bonfire flag/value pairs.  deploy.py then      *)
(* runs "bonfire deploy" with these tokens, parse-snapshot.py prints them. *)
(*                                                                         *)
(* Python str values are TLA+ strings; TLC evaluates Len, SubSeq and \o on *)
(* them character by character.  Python values that may be None or int    *)
(* are tagged records (PyStr, PyInt, PyNone).  The JSON text in SNAPSHOT   *)
(* is kept in decoded form (the decoding itself is pydantic's).            *)
(***************************************************************************)
EXTENDS Integers, Sequences, FiniteSets, TLC

VARIABLES
    prog,          \* which script runs: "deploy" or "parse-snapshot"
    argv,          \* command line words after the script name
    env,           \* os.environ without SNAPSHOT: name -> str, set names only
    snapshot_str,  \* os.environ.get("SNAPSHOT"): PyNone or the JSON document
    pc,            \* position of the script
    snapshot,      \* the validated Snapshot, PyNone before validation
    result,        \* the list `result` (deploy.py) / `ret` (parse-snapshot.py)
    idx,           \* number of components the for loop has processed
    command,       \* the list handed to subprocess.check_call, PyNone before
    stdout,        \* the line printed by parse-snapshot.py, PyNone before
    exit_msg       \* how the run ended, "" while it runs

vars == <<prog, argv, env, snapshot_str, pc, snapshot, result, idx,
          command, stdout, exit_msg>>

----------------------------------------------------------------------------
(* Bounds of the model *)

\* longest components list of a manifest
MaxComponents == 2

\* container image strings of the image specification are built from at
\* most this many pieces
MaxPieces == 4

----------------------------------------------------------------------------
(* Python values *)

PyNone == [ty |-> "none"]

PyStr(s) == [ty |-> "str", val |-> s]

PyInt(n) == [ty |-> "int", val |-> n]

\* bool(v) for the values that occur: None and "" are falsy
Truthy(v) == v.ty = "int" \/ (v.ty = "str" /\ v.val # "")

\* `a or b`
PyOr(a, b) == IF Truthy(a) THEN a ELSE b

Digit(d) == SubSeq("0123456789", d + 1, d + 1)

RECURSIVE IntToStr(_)
\* str(n) for n >= 0, as used by f"{n}"
IntToStr(n) == IF n < 10 THEN Digit(n)
               ELSE IntToStr(n \div 10) \o Digit(n % 10)

\* f"{v}"
Format(v) == CASE v.ty = "str" -> v.val
               [] v.ty = "int" -> IntToStr(v.val)
               [] OTHER -> "None"

\* s[:n]
SliceTo(s, n) == IF Len(s) <= n THEN s ELSE SubSeq(s, 1, n)

\* s[n:] (0-based n)
SliceFrom(s, n) == IF n >= Len(s) THEN "" ELSE SubSeq(s, n + 1, Len(s))

RECURSIVE Find(_, _, _)
\* s.find(sep, start): 0-based index of the first match at or after start,
\* -1 when there is none
Find(s, sep, start) ==
    IF start + Len(sep) > Len(s) THEN -1
    ELSE IF SubSeq(s, start + 1, start + Len(sep)) = sep THEN start
    ELSE Find(s, sep, start + 1)

RECURSIVE SplitKeepsColon(_, _)
\* Split resuming one character early, inside the separator
SplitKeepsColon(s, sep) ==
    LET i == Find(s, sep, 0) IN
    IF i = -1 THEN <<s>>
    ELSE <<SliceTo(s, i)>>
             \o SplitKeepsColon(SliceFrom(s, i + Len(sep) - 1), sep)

RECURSIVE Split(_, _)
\* s.split(sep) with a non-empty separator
Split(s, sep) ==
    LET i == Find(s, sep, 0) IN
    IF i = -1 THEN <<s>>
    ELSE <<SliceTo(s, i)>> \o Split(SliceFrom(s, i + Len(sep)), sep)

IsSpace(c) == c \in {" ", "\t", "\n"}

RECURSIVE SplitWs(_)
\* s.split(): runs of whitespace separate the words, no empty words
SplitWs(s) ==
    IF s = "" THEN <<>>
    ELSE IF IsSpace(SubSeq(s, 1, 1)) THEN SplitWs(SliceFrom(s, 1))
    ELSE LET ws == {i \in 1..Len(s) : IsSpace(SubSeq(s, i, i))} IN
         IF ws = {} THEN <<s>>
         ELSE LET k == CHOOSE i \in ws : \A j \in ws : i <= j IN
              <<SubSeq(s, 1, k - 1)>> \o SplitWs(SliceFrom(s, k))

RECURSIVE Join(_, _)
\* sep.join(words)
Join(words, sep) ==
    IF words = <<>> THEN ""
    ELSE IF Len(words) = 1 THEN words[1]
    ELSE words[1] \o sep \o Join(Tail(words), sep)

\* os.environ.get(name)
EnvGet(name) == IF name \in DOMAIN env THEN PyStr(env[name]) ELSE PyNone

\* os.environ.get(name, default)
EnvGetDefault(name, default) ==
    IF name \in DOMAIN env THEN PyStr(env[name]) ELSE default

----------------------------------------------------------------------------
(* The pydantic models *)

\* the literal separator of container_image_validator
Sep == "@sha256:"

\* class ContainerImage
ContainerImage(image, sha) == [image |-> image, sha |-> sha]

\* isinstance(data, MutableMapping): a decoded JSON object
IsMapping(data) == data.ty = "dict"

\* container_image_validator splitting at the first separator only, as
\* split("@sha256:", 1) would
container_image_validator_maxsplit(data) ==
    IF ~IsMapping(data) THEN [ok |-> FALSE, err |-> "ValueError"]
    ELSE LET i == Find(data.containerImage, Sep, 0) IN
         IF i = -1 THEN [ok |-> FALSE, err |-> "ValueError"]
         ELSE [ok |-> TRUE,
               data |-> [data EXCEPT
                   !.containerImage =
                       ContainerImage(SliceTo(data.containerImage, i),
                                      SliceFrom(data.containerImage,
                                                i + Len(Sep)))]]

\* Component.container_image_validator (mode="before"): the result of the
\* rewrite, or the ValueError it raises (the failed unpacking of
\* `image, sha = ...` is a ValueError too)
container_image_validator(data) ==
    IF ~IsMapping(data) THEN [ok |-> FALSE, err |-> "ValueError"]
    ELSE LET parts == Split(data.containerImage, Sep) IN
         IF Len(parts) # 2 THEN [ok |-> FALSE, err |-> "ValueError"]
         ELSE [ok |-> TRUE,
               data |-> [data EXCEPT
                   !.containerImage = ContainerImage(parts[1], parts[2])]]

\* class Component: the before-validator, then the fields
Component(data) ==
    LET r == container_image_validator(data) IN
    IF ~r.ok THEN r
    ELSE [ok |-> TRUE,
          value |-> [name |-> r.data.name,
                     container_image |-> r.data.containerImage,
                     source |-> r.data.source]]

RECURSIVE ValidOnly(_)
\* the validated components of a list, the invalid ones left out
ValidOnly(components) ==
    IF components = <<>> THEN <<>>
    ELSE LET r == Component(Head(components)) IN
         (IF r.ok THEN <<r.value>> ELSE <<>>) \o ValidOnly(Tail(components))

\* model_validate_json accepting the valid components of a manifest
model_validate_json_partial(doc) ==
    IF doc.ty # "dict" THEN [ok |-> FALSE, err |-> "ValidationError"]
    ELSE [ok |-> TRUE,
          value |-> [application |-> doc.application,
                     components |-> ValidOnly(doc.components)]]

\* Snapshot.model_validate_json: every component must validate; one failure
\* fails the call
model_validate_json(doc) ==
    IF doc.ty # "dict" THEN [ok |-> FALSE, err |-> "ValidationError"]
    ELSE IF \E i \in 1..Len(doc.components) : ~Component(doc.components[i]).ok
         THEN [ok |-> FALSE, err |-> "ValidationError"]
    ELSE [ok |-> TRUE,
          value |-> [application |-> doc.application,
                     components |-> [i \in 1..Len(doc.components) |->
                                        Component(doc.components[i]).value]]]

----------------------------------------------------------------------------
(* The parameter builder: the body of get_component_options / main *)

\* TagPrefix testing `pr_number is not None`
TagPrefixNotNone(pr_number) ==
    IF pr_number # PyNone THEN "pr-" \o Format(pr_number) \o "-" ELSE ""

\* prefix = ""; if pr_number: prefix = f"pr-{pr_number}-"
TagPrefix(pr_number) ==
    IF Truthy(pr_number) THEN "pr-" \o Format(pr_number) \o "-" ELSE ""

\* ComponentName with the operands of `or` exchanged
ComponentNameOwnFirst(component) ==
    Format(PyOr(PyStr(component.name), EnvGet("BONFIRE_COMPONENT_NAME")))

\* os.environ.get("BONFIRE_COMPONENT_NAME") or component.name
ComponentName(component) ==
    Format(PyOr(EnvGet("BONFIRE_COMPONENT_NAME"), PyStr(component.name)))

\* ShortRevision cutting at 8
ShortRevisionEight(revision) == SliceTo(revision, 8)

\* component.source.git.revision[:7]
ShortRevision(revision) == SliceTo(revision, 7)

\* argument of secrets.randbelow
RandBound == 100

\* RandBelow with the bound included
RandBelowInclusive(n) == 0..n

\* the values secrets.randbelow(n) can return
RandBelow(n) == 0..(n - 1)

\* ComponentOptions with the IMAGE_TAG pair ahead of the IMAGE pair
ComponentOptionsTagFirst(component, prefix, n) ==
    LET component_name == ComponentName(component)
        revision == component.source.git.revision
        image == component.container_image.image
    IN <<"--set-template-ref", component_name \o "=" \o revision,
         "--set-parameter",
             component_name \o "/IMAGE_TAG=" \o prefix \o ShortRevision(revision),
         "--set-parameter", component_name \o "/IMAGE=" \o image,
         "--set-parameter", component_name \o "/DBM_IMAGE=" \o image,
         "--set-parameter",
             component_name \o "/DBM_IMAGE_TAG=" \o prefix \o ShortRevision(revision),
         "--set-parameter",
             component_name \o "/DBM_INVOCATION=" \o Format(PyInt(n))>>

\* the tuple one iteration of the loop passes to extend; n is the value
\* secrets.randbelow returned
ComponentOptions(component, prefix, n) ==
    LET component_name == ComponentName(component)
        revision == component.source.git.revision
        image == component.container_image.image
    IN <<"--set-template-ref", component_name \o "=" \o revision,
         "--set-parameter", component_name \o "/IMAGE=" \o image,
         "--set-parameter",
             component_name \o "/IMAGE_TAG=" \o prefix \o ShortRevision(revision),
         "--set-parameter", component_name \o "/DBM_IMAGE=" \o image,
         "--set-parameter",
             component_name \o "/DBM_IMAGE_TAG=" \o prefix \o ShortRevision(revision),
         "--set-parameter",
             component_name \o "/DBM_INVOCATION=" \o Format(PyInt(n))>>

\* Extend putting the new items in front
ExtendFront(list, items) == items \o list

\* list.extend
Extend(list, items) == list \o items

----------------------------------------------------------------------------
(* deploy.py main: the command line of bonfire *)

RECURSIVE FlagEach(_, _)
\* chain.from_iterable((flag, word) for word in words)
FlagEach(flag, words) ==
    IF words = <<>> THEN <<>>
    ELSE <<flag, words[1]>> \o FlagEach(flag, Tail(words))

\* the strings of a list as Python values
AsPyStrs(words) == [i \in 1..Len(words) |-> PyStr(words[i])]

\* cred_params
CredParams ==
    IF EnvGet("APP_NAME") = PyStr("koku")
    THEN <<"--set-parameter",
           "koku/AWS_CREDENTIALS_EPH=" \o Format(EnvGet("AWS_CREDENTIALS_EPH")),
           "--set-parameter",
           "koku/GCP_CREDENTIALS_EPH=" \o Format(EnvGet("GCP_CREDENTIALS_EPH")),
           "--set-parameter",
           "koku/OCI_CREDENTIALS_EPH=" \o Format(EnvGet("OCI_CREDENTIALS_EPH")),
           "--set-parameter",
           "koku/OCI_CONFIG_EPH=" \o Format(EnvGet("OCI_CONFIG_EPH"))>>
    ELSE <<>>

\* the tokens of `command` before *cred_params; deploy_timeout is the int
\* 900 when DEPLOY_TIMEOUT is not set
FixedParams(namespace) ==
    <<PyStr("bonfire"), PyStr("deploy"),
      PyStr("--source"), PyStr("appsre"),
      PyStr("--ref-env"), EnvGetDefault("REF_ENV", PyStr("insights-production")),
      PyStr("--namespace"), PyStr(namespace),
      PyStr("--timeout"), EnvGetDefault("DEPLOY_TIMEOUT", PyInt(900)),
      PyStr("--optional-deps-method"),
          EnvGetDefault("OPTIONAL_DEPS_METHOD", PyStr("hybrid")),
      PyStr("--frontends"), EnvGetDefault("DEPLOY_FRONTENDS", PyStr("false")),
      PyStr("--set-parameter"), PyStr("rbac/MIN_REPLICAS=1")>>

\* the tokens between the fixed ones and *get_component_options()
MiddleParams ==
    AsPyStrs(CredParams
        \o FlagEach("--component",
                    SplitWs(EnvGetDefault("COMPONENTS", PyStr("")).val))
        \o FlagEach("--no-remove-resources",
                    SplitWs(EnvGetDefault("COMPONENTS_W_RESOURCES", PyStr("")).val))
        \o SplitWs(EnvGetDefault("EXTRA_DEPLOY_ARGS", PyStr("")).val))

\* Command with the application name ahead of the component options
CommandAppFirst(namespace, component_options) ==
    FixedParams(namespace) \o MiddleParams \o <<EnvGet("APP_NAME")>>
        \o AsPyStrs(component_options)

\* command = [...]
Command(namespace, component_options) ==
    FixedParams(namespace) \o MiddleParams \o AsPyStrs(component_options)
        \o <<EnvGet("APP_NAME")>>

----------------------------------------------------------------------------
(* Inputs *)

\* a decoded JSON object of the components array
JComponent(name, containerImage, revision) ==
    [ty |-> "dict", name |-> name, containerImage |-> containerImage,
     source |-> [git |-> [url |-> "https://example.com/r",
                          revision |-> revision]]]

\* an element of the components array that is a JSON string
JString(s) == [ty |-> "str", val |-> s]

\* a decoded SNAPSHOT document
JSnapshot(application, components) ==
    [ty |-> "dict", application |-> application, components |-> components]

\* a SNAPSHOT value that is not JSON
JInvalid == [ty |-> "invalid"]

ValidComponents ==
    {JComponent("koku", "quay.io/koku@sha256:abc123", "deadbeef1234"),
     JComponent("koku", "quay.io/k2@sha256:0f", "abc"),
     JComponent("db", "quay.io/db@sha256:77", ""),
     JComponent("db", "quay.io/koku@sha256:abc123", "1234567")}

InvalidComponents ==
    {JComponent("koku", "quay.io/koku:latest", "deadbeef1234"),
     JComponent("db", "quay.io/db@sha256:77@sha256:78", "abc"),
     JString("koku")}

RECURSIVE SeqsUpTo(_, _)
\* the sequences over S of length at most n
SeqsUpTo(S, n) ==
    IF n = 0 THEN {<<>>}
    ELSE LET T == SeqsUpTo(S, n - 1) IN
         T \cup {Append(t, x) : t \in {u \in T : Len(u) = n - 1}, x \in S}

Manifests ==
    {JSnapshot("koku", cs) :
        cs \in SeqsUpTo(ValidComponents \cup InvalidComponents, MaxComponents)}

NoEnv == [name \in {} |-> ""]

PrEnvs == {NoEnv, "PR_NUMBER" :> "", "PR_NUMBER" :> "42"}

NameEnvs == {NoEnv, "BONFIRE_COMPONENT_NAME" :> "",
             "BONFIRE_COMPONENT_NAME" :> "ovr"}

DeployEnvs ==
    {NoEnv,
     ("APP_NAME" :> "koku") @@ ("DEPLOY_TIMEOUT" :> "600")
        @@ ("COMPONENTS" :> "koku  trino") @@ ("COMPONENTS_W_RESOURCES" :> "koku")
        @@ ("EXTRA_DEPLOY_ARGS" :> " --no-get-dependencies -v ")
        @@ ("AWS_CREDENTIALS_EPH" :> "YXdz"),
     ("APP_NAME" :> "hccm") @@ ("DEPLOY_TIMEOUT" :> "600")
        @@ ("REF_ENV" :> "insights-stage")}

\* command lines argparse accepts, and command lines it rejects
GoodArgvs == {<<"ns", "run-1">>}

BadArgvs == {<<>>, <<"ns", "run-1", "x">>}

Input(p, a, e, s) == [prog |-> p, argv |-> a, env |-> e, snapshot_str |-> s]

\* the runs of the main specification
Inputs ==
    {Input("deploy", a, d @@ pr @@ nm, s) :
        a \in GoodArgvs, d \in DeployEnvs, pr \in PrEnvs, nm \in NameEnvs,
        s \in {PyNone, JInvalid} \cup Manifests}
    \cup
    {Input("deploy", a, d @@ pr @@ nm, s) :
        a \in BadArgvs, d \in DeployEnvs, pr \in PrEnvs, nm \in NameEnvs,
        s \in {PyNone, JInvalid}
              \cup {m \in Manifests : Len(m.components) <= 1}}
    \cup
    {Input("parse-snapshot", <<>>, pr @@ nm, s) :
        pr \in PrEnvs, nm \in NameEnvs,
        s \in {PyNone, JInvalid} \cup Manifests}

----------------------------------------------------------------------------
(* The scripts *)

InitWith(in) ==
    /\ prog = in.prog
    /\ argv = in.argv
    /\ env = in.env
    /\ snapshot_str = in.snapshot_str
    /\ pc = IF in.prog = "deploy" THEN "main" ELSE "load"
    /\ snapshot = PyNone
    /\ result = <<>>
    /\ idx = 0
    /\ command = PyNone
    /\ stdout = PyNone
    /\ exit_msg = ""

Init == \E in \in Inputs : InitWith(in)

\* the run ends
Exit(msg) == pc' = "exit" /\ exit_msg' = msg

\* deploy.py parse_args: two positionals, namespace and requester
parse_args ==
    /\ prog = "deploy"
    /\ pc = "main"
    /\ IF Len(argv) = 2 THEN pc' = "load" /\ exit_msg' = exit_msg
                        ELSE Exit("usage")
    /\ UNCHANGED <<prog, argv, env, snapshot_str, snapshot, result, idx,
                   command, stdout>>

\* SNAPSHOT is not set: sys.exit("Missing SNAPSHOT") in deploy.py,
\* RuntimeError in parse-snapshot.py
MissingSnapshot ==
    /\ pc = "load"
    /\ snapshot_str = PyNone
    /\ Exit(IF prog = "deploy" THEN "Missing SNAPSHOT" ELSE "RuntimeError")
    /\ UNCHANGED <<prog, argv, env, snapshot_str, snapshot, result, idx,
                   command, stdout>>

\* Snapshot.model_validate_json(snapshot_str) raises
ValidationFails ==
    /\ pc = "load"
    /\ snapshot_str # PyNone
    /\ ~model_validate_json(snapshot_str).ok
    /\ Exit(model_validate_json(snapshot_str).err)
    /\ UNCHANGED <<prog, argv, env, snapshot_str, snapshot, result, idx,
                   command, stdout>>

\* snapshot = Snapshot.model_validate_json(snapshot_str); result = []
ValidationSucceeds ==
    /\ pc = "load"
    /\ snapshot_str # PyNone
    /\ model_validate_json(snapshot_str).ok
    /\ snapshot' = model_validate_json(snapshot_str).value
    /\ result' = <<>>
    /\ idx' = 0
    /\ pc' = "loop"
    /\ UNCHANGED <<prog, argv, env, snapshot_str, command, stdout, exit_msg>>

\* one iteration of `for component in snapshot.components`; draws are the
\* values of secrets.randbelow(100) the run may see
ExtendResult(draws) ==
    /\ pc = "loop"
    /\ idx < Len(snapshot.components)
    /\ \E n \in draws :
         result' = Extend(result,
                          ComponentOptions(snapshot.components[idx + 1],
                                           TagPrefix(EnvGet("PR_NUMBER")), n))
    /\ idx' = idx + 1
    /\ UNCHANGED <<prog, argv, env, snapshot_str, pc, snapshot, command,
                   stdout, exit_msg>>

\* parse-snapshot.py: print(" ".join(ret))
PrintResult ==
    /\ prog = "parse-snapshot"
    /\ pc = "loop"
    /\ idx = Len(snapshot.components)
    /\ stdout' = PyStr(Join(result, " "))
    /\ Exit("ok")
    /\ UNCHANGED <<prog, argv, env, snapshot_str, snapshot, result, idx,
                   command>>

\* deploy.py: get_component_options returns, command is assembled and
\* handed to subprocess.check_call, which raises TypeError before starting
\* the process when an element is not a str
CheckCall ==
    /\ prog = "deploy"
    /\ pc = "loop"
    /\ idx = Len(snapshot.components)
    /\ command' = Command(argv[1], result)
    /\ IF \A i \in 1..Len(command') : command'[i].ty = "str"
         THEN pc' = "bonfire" /\ exit_msg' = exit_msg
         ELSE Exit("TypeError")
    /\ UNCHANGED <<prog, argv, env, snapshot_str, snapshot, result, idx,
                   stdout>>

\* bonfire ends; check_call raises CalledProcessError on a non-zero status
BonfireExits ==
    /\ pc = "bonfire"
    /\ \E status \in {0, 1} :
         Exit(IF status = 0 THEN "ok" ELSE "CalledProcessError")
    /\ UNCHANGED <<prog, argv, env, snapshot_str, snapshot, result, idx,
                   command, stdout>>

\* the draws explored by the main specification
RandSample == {n \in RandBelow(RandBound) : n \in {7, 99, 100}}

Next ==
    \/ parse_args
    \/ MissingSnapshot
    \/ ValidationFails
    \/ ValidationSucceeds
    \/ ExtendResult(RandSample)
    \/ PrintResult
    \/ CheckCall
    \/ BonfireExits

Spec == Init /\ [][Next]_vars

----------------------------------------------------------------------------
(* Further specifications *)

\* every value of secrets.randbelow(100)
NextRand ==
    \/ parse_args
    \/ MissingSnapshot
    \/ ValidationFails
    \/ ValidationSucceeds
    \/ ExtendResult(RandBelow(RandBound))
    \/ PrintResult
    \/ CheckCall
    \/ BonfireExits

KokuEnv == ("APP_NAME" :> "koku") @@ ("DEPLOY_TIMEOUT" :> "600")

RandInputs ==
    {Input(p, IF p = "deploy" THEN <<"ns", "run-1">> ELSE <<>>, KokuEnv, s) :
        p \in {"deploy", "parse-snapshot"},
        s \in {PyNone, JInvalid,
               JSnapshot("koku",
                   <<JComponent("koku", "quay.io/koku@sha256:abc123",
                                "deadbeef1234")>>),
               JSnapshot("koku",
                   <<JComponent("koku", "quay.io/koku@sha256:abc123",
                                "deadbeef1234"),
                     JComponent("db", "quay.io/db@sha256:77", "abc")>>)}}

InitRand == \E in \in RandInputs : InitWith(in)

\* the scripts under every draw of the random source
SpecRand == InitRand /\ [][NextRand]_vars

\* the pieces container image strings are built from
Pieces == {"q", "@", "@sha256:", "sha256:", "a"}

RECURSIVE Concats(_)
\* the concatenations of at most n pieces
Concats(n) ==
    IF n = 0 THEN {""}
    ELSE LET T == Concats(n - 1) IN T \cup {t \o x : t \in T, x \in Pieces}

ImageInputs ==
    {Input(p, IF p = "deploy" THEN <<"ns", "run-1">> ELSE <<>>, KokuEnv, s) :
        p \in {"deploy", "parse-snapshot"},
        s \in {PyNone}
              \cup {JSnapshot("koku", <<JComponent("koku", img, "deadbeef1234")>>) :
                       img \in Concats(MaxPieces)}}

InitImage == \E in \in ImageInputs : InitWith(in)

\* the scripts on one-component manifests over many container image strings
SpecImage == InitImage /\ [][Next]_vars

----------------------------------------------------------------------------
(* Vocabulary of the properties.  These definitions describe the expected   *)
(* output from the raw inputs (the decoded SNAPSHOT and the environment)    *)
(* and do not use the operators of the model above.                         *)

\* number of positions of s at which the separator starts
Occurrences(s) ==
    Cardinality({i \in 1..Len(s) :
        i + 7 <= Len(s) /\ SubSeq(s, i, i + 7) = "@sha256:"})

StartsWith(s, p) == Len(s) >= Len(p) /\ SubSeq(s, 1, Len(p)) = p

\* s without its first n characters
Drop(s, n) == IF n >= Len(s) THEN "" ELSE SubSeq(s, n + 1, Len(s))

\* the last n characters of s
Last(s, n) == IF n >= Len(s) THEN s ELSE SubSeq(s, Len(s) - n + 1, Len(s))

IsManifest == snapshot_str # PyNone /\ snapshot_str.ty = "dict"

\* the i-th component object of the SNAPSHOT document
Raw(i) == snapshot_str.components[i]

NumRaw == Len(snapshot_str.components)

RawValid(c) == c.ty = "dict" /\ Occurrences(c.containerImage) = 1

AllRawValid == IsManifest /\ \A i \in 1..NumRaw : RawValid(Raw(i))

RawRevision(i) == Raw(i).source.git.revision

\* the part of the i-th containerImage before the separator
RawImage(i) ==
    LET s == Raw(i).containerImage
        k == CHOOSE j \in 1..Len(s) :
                 j + 7 <= Len(s) /\ SubSeq(s, j, j + 7) = "@sha256:"
    IN IF k = 1 THEN "" ELSE SubSeq(s, 1, k - 1)

OverrideSet == "BONFIRE_COMPONENT_NAME" \in DOMAIN env

\* the identifier expected in the values of the i-th component
ExpectedName(i) ==
    IF OverrideSet /\ env["BONFIRE_COMPONENT_NAME"] # ""
    THEN env["BONFIRE_COMPONENT_NAME"] ELSE Raw(i).name

PrSet == "PR_NUMBER" \in DOMAIN env /\ env["PR_NUMBER"] # ""

ExpectedPrefix == IF PrSet THEN "pr-" \o env["PR_NUMBER"] \o "-" ELSE ""

\* the i-th block of 12 tokens of the output, and its k-th token
Block(i) == SubSeq(result, 12 * (i - 1) + 1, 12 * i)

Token(i, k) == result[12 * (i - 1) + k]

\* the builder has started: the SNAPSHOT was parsed and validated
Building == snapshot # PyNone

\* the builder has processed every component
Built == Building /\ idx = Len(snapshot.components)

\* the part of the value token k of block i after "<name><key>"
ValueAfter(i, k, key) == Drop(Token(i, k), Len(ExpectedName(i) \o key))

IsDigit(c) == c \in {"0", "1", "2", "3", "4", "5", "6", "7", "8", "9"}

\* s is the decimal numeral of an integer in 0..99
IsDecimalBelow100(s) ==
    /\ Len(s) \in {1, 2}
    /\ \A j \in 1..Len(s) : IsDigit(SubSeq(s, j, j))
    /\ Len(s) = 2 => SubSeq(s, 1, 1) # "0"

----------------------------------------------------------------------------
(* Properties *)

\* C1: for every component of a parsed Snapshot the builder emits exactly 6
\* flag/value pairs (12 tokens) in the fixed order --set-template-ref
\* <name>=<full revision>, then --set-parameter with <name>/IMAGE=<image>,
\* <name>/IMAGE_TAG=..., <name>/DBM_IMAGE=<image>, <name>/DBM_IMAGE_TAG=...,
\* <name>/DBM_INVOCATION=...; the image is the container image path without
\* the digest.
C1_SixPairsInOrder ==
    Building =>
        /\ Len(result) = 12 * idx
        /\ \A i \in 1..idx :
             LET nm == ExpectedName(i) IN
             /\ Token(i, 1) = "--set-template-ref"
             /\ \A k \in {3, 5, 7, 9, 11} : Token(i, k) = "--set-parameter"
             /\ Token(i, 2) = nm \o "=" \o RawRevision(i)
             /\ Token(i, 4) = nm \o "/IMAGE=" \o RawImage(i)
             /\ StartsWith(Token(i, 6), nm \o "/IMAGE_TAG=")
             /\ Token(i, 8) = nm \o "/DBM_IMAGE=" \o RawImage(i)
             /\ StartsWith(Token(i, 10), nm \o "/DBM_IMAGE_TAG=")
             /\ StartsWith(Token(i, 12), nm \o "/DBM_INVOCATION=")
             /\ Occurrences(Token(i, 4)) = 0
             /\ Occurrences(Token(i, 8)) = 0

\* a component with a revision longer than 7 characters has been expanded
C1_Witness ==
    /\ Building /\ pc = "loop" /\ idx = 1 /\ Len(result) = 12
    /\ Len(RawRevision(1)) > 7
    /\ Token(1, 2) = "koku=deadbeef1234"

\* C2: the output is the concatenation of the per-component blocks in
\* manifest order: 12*N tokens for N components, the i-th block coming from
\* the i-th component, with no merging of components of the same name; the
\* printed line and the bonfire command carry exactly this list.
C2_ConcatenationInOrder ==
    Built =>
        /\ Len(result) = 12 * NumRaw
        /\ Cardinality({j \in 1..Len(result) :
                            result[j] = "--set-template-ref"}) = NumRaw
        /\ \A i \in 1..NumRaw :
             /\ Block(i)[2] = ExpectedName(i) \o "=" \o RawRevision(i)
             /\ Block(i)[4] = ExpectedName(i) \o "/IMAGE=" \o RawImage(i)
        /\ stdout # PyNone =>
             Len(stdout.val) =
                 LET lens == [j \in 1..Len(result) |-> Len(result[j])]
                     sum[j \in 0..Len(result)] ==
                         IF j = 0 THEN 0 ELSE sum[j - 1] + lens[j]
                 IN sum[Len(result)]
                    + (IF result = <<>> THEN 0 ELSE Len(result) - 1)
        /\ command # PyNone =>
             \A j \in 1..Len(result) :
                 command[Len(command) - 1 - Len(result) + j] = PyStr(result[j])

\* two components of the same name, each with its own block
C2_Witness ==
    /\ Built /\ NumRaw = 2 /\ Len(result) = 24
    /\ Raw(1).name = Raw(2).name
    /\ RawRevision(1) # RawRevision(2)
    /\ Token(1, 2) = "koku=abc" /\ Token(2, 2) = "koku=deadbeef1234"

\* C3: parsing is all-or-nothing: with one invalid component in the
\* manifest no Snapshot is constructed, the builder emits no token, nothing
\* is printed and no command is built.
C3_AllOrNothing ==
    (IsManifest /\ ~AllRawValid) =>
        /\ snapshot = PyNone
        /\ result = <<>>
        /\ stdout = PyNone
        /\ command = PyNone
        /\ pc \in {"main", "load", "exit"}
        /\ exit_msg \in {"", "usage", "ValidationError"}

\* a valid component followed by an invalid one: the parse has failed
C3_Witness ==
    /\ IsManifest /\ NumRaw = 2
    /\ RawValid(Raw(1)) /\ ~RawValid(Raw(2))
    /\ pc = "exit" /\ exit_msg = "ValidationError"

\* the validation step of the run is over
ValidationDone == pc \in {"loop", "bonfire"} \/ (pc = "exit" /\ exit_msg # "usage"
                                                  /\ exit_msg # "")

\* the ways to write s as X + "@sha256:" + Y, as the position of the
\* separator
Cuts(s) == {k \in 1..Len(s) : k + 7 <= Len(s) /\ SubSeq(s, k, k + 7) = "@sha256:"}

CutX(s, k) == IF k = 1 THEN "" ELSE SubSeq(s, 1, k - 1)

CutY(s, k) == Drop(s, k + 7)

\* C4 as stated: for every containerImage string X + '@sha256:' + Y where Y
\* does not contain the separator, the validator yields image X and sha Y.
C4_Original ==
    (ValidationDone /\ IsManifest /\ NumRaw = 1 /\ Raw(1).ty = "dict") =>
        \A k \in Cuts(Raw(1).containerImage) :
            LET X == CutX(Raw(1).containerImage, k)
                Y == CutY(Raw(1).containerImage, k)
            IN Occurrences(Y) = 0 =>
                 /\ snapshot # PyNone
                 /\ snapshot.components[1].container_image
                        = [image |-> X, sha |-> Y]

\* C4 amended: for every containerImage string X + '@sha256:' + Y where
\* neither X nor Y contains the separator, the validator yields image X
\* and sha Y, and the separator appears in neither field.
C4_SplitExact ==
    (ValidationDone /\ IsManifest /\ NumRaw = 1 /\ Raw(1).ty = "dict") =>
        \A k \in Cuts(Raw(1).containerImage) :
            LET X == CutX(Raw(1).containerImage, k)
                Y == CutY(Raw(1).containerImage, k)
            IN (Occurrences(X) = 0 /\ Occurrences(Y) = 0) =>
                 /\ snapshot # PyNone
                 /\ snapshot.components[1].container_image
                        = [image |-> X, sha |-> Y]
                 /\ Occurrences(snapshot.components[1].container_image.image) = 0
                 /\ Occurrences(snapshot.components[1].container_image.sha) = 0

\* a string with one separator and parts that hold pieces of the separator
\* has been validated
C4_Witness ==
    /\ ValidationDone /\ IsManifest /\ NumRaw = 1
    /\ Raw(1).containerImage = "q@@sha256:sha256:"
    /\ snapshot # PyNone
    /\ snapshot.components[1].container_image = [image |-> "q@", sha |-> "sha256:"]

\* C5: a containerImage string with no occurrence of '@sha256:' or with
\* more than one makes the construction fail; no ContainerImage is made.
C5_BadImageFails ==
    (ValidationDone /\ IsManifest /\ NumRaw = 1 /\ Raw(1).ty = "dict"
        /\ Occurrences(Raw(1).containerImage) # 1) =>
        /\ snapshot = PyNone
        /\ pc = "exit"
        /\ exit_msg = "ValidationError"
        /\ result = <<>>

\* a string with two separators has been rejected
C5_Witness ==
    /\ IsManifest /\ NumRaw = 1
    /\ Raw(1).containerImage = "q@sha256:a@sha256:"
    /\ Occurrences(Raw(1).containerImage) = 2
    /\ pc = "exit" /\ exit_msg = "ValidationError"

\* C6: with PR_NUMBER absent or empty the IMAGE_TAG and DBM_IMAGE_TAG values
\* are the short revision alone; with a non-empty PR_NUMBER they are
\* 'pr-<pr_number>-' followed by the short revision, for every component.
C6_TagPrefix ==
    Building =>
        \A i \in 1..idx :
            LET tag == ValueAfter(i, 6, "/IMAGE_TAG=")
                dbm == ValueAfter(i, 10, "/DBM_IMAGE_TAG=")
                short == IF Len(RawRevision(i)) >= 7
                         THEN SubSeq(RawRevision(i), 1, 7) ELSE RawRevision(i)
            IN IF "PR_NUMBER" \in DOMAIN env /\ env["PR_NUMBER"] # ""
               THEN /\ tag = "pr-" \o env["PR_NUMBER"] \o "-" \o short
                    /\ dbm = "pr-" \o env["PR_NUMBER"] \o "-" \o short
               ELSE /\ tag = short
                    /\ dbm = short

\* PR_NUMBER is set to the empty string and two components were expanded
C6_Witness ==
    /\ Built /\ idx = 2
    /\ "PR_NUMBER" \in DOMAIN env /\ env["PR_NUMBER"] = ""
    /\ ~OverrideSet
    /\ Token(1, 6) = "koku/IMAGE_TAG=deadbee"
    /\ Token(2, 10) = "db/DBM_IMAGE_TAG=1234567"

\* C7: the short revision in IMAGE_TAG and DBM_IMAGE_TAG is the first 7
\* characters of the revision when it has at least 7, the whole revision
\* when it has fewer (also when it is empty); the loop never ends early,
\* and both tags of a component carry the same value.
C7_ShortRevision ==
    Building =>
        /\ \A i \in 1..idx :
             LET tag == ValueAfter(i, 6, "/IMAGE_TAG=")
                 dbm == ValueAfter(i, 10, "/DBM_IMAGE_TAG=")
                 rev == RawRevision(i)
             IN /\ tag = dbm
                /\ Len(rev) >= 7 =>
                     /\ Len(tag) = Len(ExpectedPrefix) + 7
                     /\ Last(tag, 7) = SubSeq(rev, 1, 7)
                /\ Len(rev) < 7 =>
                     /\ Len(tag) = Len(ExpectedPrefix) + Len(rev)
                     /\ Last(tag, Len(rev)) = rev
        /\ pc # "loop" => idx = Len(snapshot.components)

\* an empty revision and a 3-character revision were expanded and the run
\* went on to its end
C7_Witness ==
    /\ Built /\ idx = 2 /\ pc = "exit" /\ exit_msg = "ok"
    /\ RawRevision(1) = "" /\ RawRevision(2) = "abc"
    /\ PrSet
    /\ Token(1, 6) = "db/IMAGE_TAG=pr-42-"
    /\ Token(2, 6) = "koku/IMAGE_TAG=pr-42-abc"

\* the identifier at the head of the six values of block i is nm
NamedBy(i, nm) ==
    /\ StartsWith(Token(i, 2), nm \o "=")
    /\ StartsWith(Token(i, 4), nm \o "/IMAGE=")
    /\ StartsWith(Token(i, 6), nm \o "/IMAGE_TAG=")
    /\ StartsWith(Token(i, 8), nm \o "/DBM_IMAGE=")
    /\ StartsWith(Token(i, 10), nm \o "/DBM_IMAGE_TAG=")
    /\ StartsWith(Token(i, 12), nm \o "/DBM_INVOCATION=")

\* C8 as stated: the identifier in all 6 values of a component is the
\* override BONFIRE_COMPONENT_NAME if it is present, else the component's
\* own name.
C8_Original ==
    Building =>
        \A i \in 1..idx :
            NamedBy(i, IF "BONFIRE_COMPONENT_NAME" \in DOMAIN env
                       THEN env["BONFIRE_COMPONENT_NAME"] ELSE Raw(i).name)

\* C8 amended: the identifier in all 6 values of a component is the
\* override BONFIRE_COMPONENT_NAME if it is present and not empty, else the
\* component's own name; a non-empty override heads every value of every
\* component.
C8_EffectiveName ==
    Building =>
        \A i \in 1..idx :
            /\ ("BONFIRE_COMPONENT_NAME" \in DOMAIN env
                    /\ env["BONFIRE_COMPONENT_NAME"] # "")
                 => /\ NamedBy(i, env["BONFIRE_COMPONENT_NAME"])
                    /\ Raw(i).name # env["BONFIRE_COMPONENT_NAME"]
                         => ~NamedBy(i, Raw(i).name)
            /\ ("BONFIRE_COMPONENT_NAME" \notin DOMAIN env
                    \/ env["BONFIRE_COMPONENT_NAME"] = "")
                 => NamedBy(i, Raw(i).name)

\* the override renamed two components of different names
C8_Witness ==
    /\ Built /\ idx = 2
    /\ OverrideSet /\ env["BONFIRE_COMPONENT_NAME"] = "ovr"
    /\ Raw(1).name = "koku" /\ Raw(2).name = "db"
    /\ Token(1, 2) = "ovr=deadbeef1234"
    /\ Token(2, 4) = "ovr/IMAGE=quay.io/db"

\* C9: the DBM_INVOCATION value of every component is the decimal string of
\* an integer n with 0 <= n < 100, drawn for each component on its own.
C9_InvocationRange ==
    Building =>
        \A i \in 1..idx :
            /\ StartsWith(Token(i, 12), ExpectedName(i) \o "/DBM_INVOCATION=")
            /\ IsDecimalBelow100(ValueAfter(i, 12, "/DBM_INVOCATION="))

\* two components of one manifest drew the two ends of the range
C9_Witness ==
    /\ Built /\ idx = 2
    /\ Token(1, 12) = "koku/DBM_INVOCATION=99"
    /\ Token(2, 12) = "db/DBM_INVOCATION=0"

\* number of words of s, the separators being runs of whitespace
WordCount(s) ==
    Cardinality({j \in 1..Len(s) :
        /\ SubSeq(s, j, j) \notin {" ", "\t", "\n"}
        /\ j = 1 \/ SubSeq(s, j - 1, j - 1) \in {" ", "\t", "\n"}})

EnvWords(name) == IF name \in DOMAIN env THEN WordCount(env[name]) ELSE 0

\* number of tokens of the command before the component options
HeadLength ==
    16 + (IF "APP_NAME" \in DOMAIN env /\ env["APP_NAME"] = "koku" THEN 8 ELSE 0)
       + 2 * EnvWords("COMPONENTS") + 2 * EnvWords("COMPONENTS_W_RESOURCES")
       + EnvWords("EXTRA_DEPLOY_ARGS")

\* bonfire runs only after the snapshot was found, parsed and validated and
\* every component was expanded
C10_InvokedAfterBuild ==
    (prog = "deploy" /\ (pc = "bonfire" \/ command # PyNone)) =>
        /\ AllRawValid
        /\ Built
        /\ Len(result) = 12 * NumRaw

\* without a valid SNAPSHOT bonfire is never run
C10_NeverInvoked ==
    (prog = "deploy" /\ ~AllRawValid) =>
        /\ pc # "bonfire"
        /\ command = PyNone
        /\ exit_msg \notin {"ok", "CalledProcessError", "TypeError"}

\* the component tokens follow the fixed, credential, component and extra
\* argument parameters, and the application name is the last token
C10_CommandOrder ==
    (prog = "deploy" /\ command # PyNone) =>
        /\ Len(command) = HeadLength + Len(result) + 1
        /\ command[1] = PyStr("bonfire") /\ command[2] = PyStr("deploy")
        /\ \A j \in 1..Len(result) :
               command[HeadLength + j] = PyStr(result[j])
        /\ \A j \in 1..HeadLength :
               command[j] # PyStr("--set-template-ref")
        /\ command[Len(command)] =
               (IF "APP_NAME" \in DOMAIN env THEN PyStr(env["APP_NAME"])
                                              ELSE PyNone)

\* C10 as stated: in deploy.py bonfire is invoked only after the SNAPSHOT
\* was found, parsed and validated and all options were built; if SNAPSHOT
\* is absent the run ends with the fatal error 'Missing SNAPSHOT'; if it is
\* absent or invalid bonfire is never invoked; in the command the component
\* tokens come after all other parameters and the application name is last.
C10_Original ==
    /\ C10_InvokedAfterBuild
    /\ C10_NeverInvoked
    /\ C10_CommandOrder
    /\ (prog = "deploy" /\ snapshot_str = PyNone /\ pc = "exit")
           => exit_msg = "Missing SNAPSHOT"

\* C10 amended: as C10, the run ending with 'Missing SNAPSHOT' when
\* SNAPSHOT is absent and the command line has its two positional
\* arguments (argparse ends the run before SNAPSHOT is read otherwise).
C10_InvokeOrder ==
    /\ C10_InvokedAfterBuild
    /\ C10_NeverInvoked
    /\ C10_CommandOrder
    /\ (prog = "deploy" /\ snapshot_str = PyNone /\ pc = "exit")
           => exit_msg = (IF Len(argv) = 2 THEN "Missing SNAPSHOT" ELSE "usage")
    /\ (prog = "deploy" /\ snapshot_str = PyNone /\ Len(argv) = 2)
           => pc \in {"main", "load", "exit"}

\* bonfire runs with credentials, components, extra arguments and the
\* options of two components
C10_Witness ==
    /\ prog = "deploy" /\ pc = "bonfire" /\ idx = 2
    /\ Len(command) = 16 + 8 + 4 + 2 + 2 + 24 + 1
    /\ command[Len(command)] = PyStr("koku")
    /\ command[33] = PyStr("--set-template-ref")

====
